---- MODULE Spec2Model ----
(***************************************************************************)
(* 1-D bond-based peridynamic bar (src/1dbar_code.ipynb).                  *)
(*                                                                         *)
(* The notebook is a straight-line script: a parameters cell, a boundary   *)
(* conditions cell and the displacement cell, whose time loop is the only  *)
(* part with state.  One action, TimeStep, is one iteration of that loop   *)
(* (boundary assignment, force evaluation of every node, central           *)
(* difference, record, buffer rotation, or the exception that ends the     *)
(* run); LoopExit is the loop running out of steps.                        *)
(*                                                                         *)
(* Numbers.  Python floats are IEEE binary64 and are modelled as such: a   *)
(* sign, a 53-bit significand and a binary exponent, + - * / rounded to     *)
(* nearest, ties to even, with the specials the script can produce (inf    *)
(* and nan from a division by zero).  ** is the C library's pow, which is  *)
(* within one unit of the last place but not always the nearest float; it  *)
(* is modelled step by step.  Significands are natural numbers of any size *)
(* (little-endian limbs of 14 bits).  The exponent is not bounded: no      *)
(* value of the script comes near overflow or the subnormal range.  Zero   *)
(* carries no sign: no operation of the script tells -0.0 from 0.0.        *)
(***************************************************************************)
EXTENDS Integers, Sequences, FiniteSets, TLC

(***************************************************************************)
(* Natural numbers of any size: little-endian limbs, no leading zero limb. *)
(***************************************************************************)
LimbBits == 14

Base == 16384

\* the number of bits of a binary64 significand
MantBits == 53

Limb(a, i) == IF i <= Len(a) THEN a[i] ELSE 0

RECURSIVE NatNorm(_)
NatNorm(a) ==
  IF a = <<>> THEN <<>>
  ELSE IF a[Len(a)] = 0 THEN NatNorm(SubSeq(a, 1, Len(a) - 1))
  ELSE a

RECURSIVE NatFromInt(_)
NatFromInt(k) == IF k = 0 THEN <<>> ELSE <<k % Base>> \o NatFromInt(k \div Base)

RECURSIVE NatCmpAt(_, _, _)
NatCmpAt(a, b, i) ==
  IF i = 0 THEN 0
  ELSE IF a[i] > b[i] THEN 1
  ELSE IF a[i] < b[i] THEN -1
  ELSE NatCmpAt(a, b, i - 1)

NatCmp(a, b) ==
  IF Len(a) > Len(b) THEN 1
  ELSE IF Len(a) < Len(b) THEN -1
  ELSE NatCmpAt(a, b, Len(a))

RECURSIVE NatAddAt(_, _, _, _)
NatAddAt(a, b, i, carry) ==
  IF i > Len(a) /\ i > Len(b)
  THEN IF carry = 0 THEN <<>> ELSE <<carry>>
  ELSE LET t == Limb(a, i) + Limb(b, i) + carry
       IN  <<t % Base>> \o NatAddAt(a, b, i + 1, t \div Base)

NatAdd(a, b) == NatAddAt(a, b, 1, 0)

RECURSIVE NatSubAt(_, _, _, _)
NatSubAt(a, b, i, borrow) ==
  IF i > Len(a) THEN <<>>
  ELSE LET t == a[i] - Limb(b, i) - borrow
       IN  IF t < 0 THEN <<t + Base>> \o NatSubAt(a, b, i + 1, 1)
           ELSE <<t>> \o NatSubAt(a, b, i + 1, 0)

\* a - b for a >= b
NatSub(a, b) == NatNorm(NatSubAt(a, b, 1, 0))

RECURSIVE NatMulSmallAt(_, _, _, _)
NatMulSmallAt(a, k, i, carry) ==
  IF i > Len(a)
  THEN NatFromInt(carry)
  ELSE LET t == a[i] * k + carry
       IN  <<t % Base>> \o NatMulSmallAt(a, k, i + 1, t \div Base)

\* a * k for 0 <= k <= Base
NatMulSmall(a, k) == IF k = 0 THEN <<>> ELSE NatMulSmallAt(a, k, 1, 0)

RECURSIVE Zeros(_)
Zeros(k) == IF k = 0 THEN <<>> ELSE <<0>> \o Zeros(k - 1)

NatShl(a, k) == IF a = <<>> THEN <<>> ELSE Zeros(k) \o a

NatShr(a, k) == IF Len(a) <= k THEN <<>> ELSE SubSeq(a, k + 1, Len(a))

RECURSIVE NatMulAt(_, _, _)
NatMulAt(a, b, i) ==
  IF i > Len(b) THEN <<>>
  ELSE NatAdd(NatShl(NatMulSmall(a, b[i]), i - 1), NatMulAt(a, b, i + 1))

NatMul(a, b) == NatMulAt(a, b, 1)

\* the largest q <= qhat with q * b <= r
RECURSIVE NatDigit(_, _, _)
NatDigit(r, b, qhat) ==
  IF NatCmp(NatMulSmall(b, qhat), r) <= 0 THEN qhat ELSE NatDigit(r, b, qhat - 1)

\* the first guess of a quotient limb: the two top limbs of r over the top limb of b
NatDigitGuess(r, b) ==
  LET est == (Limb(r, Len(b) + 1) * Base + Limb(r, Len(b))) \div b[Len(b)]
  IN  IF est > Base - 1 THEN Base - 1 ELSE est

\* the quotient limb of r by b, for r < b * Base
NatQuotLimb(r, b) == IF NatCmp(r, b) < 0 THEN 0 ELSE NatDigit(r, b, NatDigitGuess(r, b))

\* long division of a by a normalised b (top limb >= Base \div 2), from limb i
\* down, with remainder r < b; the quotient's limbs little-endian
RECURSIVE NatDivAt(_, _, _, _)

\* the limbs below i, after limb i of the quotient came out as q with r in hand
NatDivBelow(a, b, i, r, q) == NatDivAt(a, b, i - 1, NatSub(r, NatMulSmall(b, q))) \o <<q>>

NatDivFrom(a, b, i, r) == NatDivBelow(a, b, i, r, NatQuotLimb(r, b))

NatDivAt(a, b, i, r) ==
  IF i = 0 THEN <<>> ELSE NatDivFrom(a, b, i, NatNorm(<<a[i]>> \o r))

\* a divided by the one-limb k, from limb i down, with remainder r < k
RECURSIVE NatDivSmallAt(_, _, _, _)
NatDivSmallAt(a, k, i, r) ==
  IF i = 0 THEN <<>>
  ELSE LET t == r * Base + a[i]
       IN  NatDivSmallAt(a, k, i - 1, t % k) \o <<t \div k>>

\* floor(a / k) for a one-limb k # 0
NatDivSmall(a, k) == IF a = <<>> THEN <<>> ELSE NatNorm(NatDivSmallAt(a, k, Len(a), 0))

\* floor(a / b) for a normalised b
NatDivNormalised(a, b) == NatNorm(NatDivAt(a, b, Len(a), <<>>))

\* floor(a / b) for b # 0
NatDiv(a, b) ==
  IF a = b THEN <<1>>
  ELSE IF Len(b) = 1 THEN NatDivSmall(a, b[1])
  ELSE NatDivNormalised(NatMulSmall(a, Base \div (b[Len(b)] + 1)),
                        NatMulSmall(b, Base \div (b[Len(b)] + 1)))

RECURSIVE Pow2(_)
Pow2(k) == IF k = 0 THEN 1 ELSE 2 * Pow2(k - 1)

RECURSIVE SmallBits(_)
SmallBits(t) == IF t = 0 THEN 0 ELSE 1 + SmallBits(t \div 2)

\* the number of bits of a
BitLen(a) == IF a = <<>> THEN 0 ELSE LimbBits * (Len(a) - 1) + SmallBits(a[Len(a)])

\* a * 2^sh
NatShlBits(a, sh) == NatShl(NatMulSmall(a, Pow2(sh % LimbBits)), sh \div LimbBits)

\* floor(a / 2^sh)
NatShrBits(a, sh) == NatDivSmall(NatShr(a, sh \div LimbBits), Pow2(sh % LimbBits))

RECURSIVE NatToIntAt(_, _)
NatToIntAt(a, i) == IF i > Len(a) THEN 0 ELSE a[i] + Base * NatToIntAt(a, i + 1)

\* a as an integer, for a < 2^31
NatToInt(a) == NatToIntAt(a, 1)

\* a mod 2^sh against 2^(sh-1), for sh >= 1: -1 below, 0 equal, 1 above
HalfCmpLimb(a, la, t, half) ==
  IF t > half THEN 1
  ELSE IF t < half THEN -1
  ELSE IF \A i \in 1 .. la : Limb(a, i) = 0 THEN 0
  ELSE 1

HalfCmpAt(a, la, hb) == HalfCmpLimb(a, la, Limb(a, la + 1) % Pow2(hb + 1), Pow2(hb))

HalfCmp(a, sh) == HalfCmpAt(a, (sh - 1) \div LimbBits, (sh - 1) % LimbBits)

(***************************************************************************)
(* Floats: [k, s, m, e] with k the kind ("fin", "inf", "nan", or "undef"   *)
(* for a name not yet bound), s the sign, m the significand and e the      *)
(* exponent: the value is s * m * 2^e with 2^52 <= m < 2^53.  Zero is      *)
(* [k |-> "fin", s |-> 1, m |-> <<>>, e |-> 0].                            *)
(***************************************************************************)
RFin(s, m, e) ==
  IF m = <<>> THEN [k |-> "fin", s |-> 1, m |-> <<>>, e |-> 0]
  ELSE [k |-> "fin", s |-> s, m |-> m, e |-> e]

RInf(s) == [k |-> "inf", s |-> s, m |-> <<>>, e |-> 0]

RNaN == [k |-> "nan", s |-> 1, m |-> <<>>, e |-> 0]

RUndef == [k |-> "undef", s |-> 1, m |-> <<>>, e |-> 0]

RZero == RFin(1, <<>>, 0)

IntAbs(i) == IF i < 0 THEN -i ELSE i

IntSign(i) == IF i < 0 THEN -1 ELSE 1

\* s * q * 2^e for q <= 2^MantBits: a significand rounded up to 2^MantBits
\* moves to the next exponent
RoundedUp(s, q, e) ==
  IF BitLen(q) > MantBits THEN RFin(s, NatShrBits(q, 1), e + 1) ELSE RFin(s, q, e)

\* the MantBits-bit q rounded by the bits dropped below it, d comparing them
\* with one half: up when above, to even on a tie
RoundQuot(s, q, e, d, sticky) ==
  IF d = 1 \/ (d = 0 /\ (sticky \/ q[1] % 2 = 1))
  THEN RoundedUp(s, NatAdd(q, <<1>>), e)
  ELSE RFin(s, q, e)

\* RoundNat for an a of b bits
RoundBits(s, a, e, sticky, b) ==
  IF b <= MantBits
  THEN RFin(s, NatShlBits(a, MantBits - b), e - (MantBits - b))
  ELSE RoundQuot(s, NatShrBits(a, b - MantBits), e + (b - MantBits),
                 HalfCmp(a, b - MantBits), sticky)

\* the binary64 nearest to s * (a + t) * 2^e, ties to even, where 0 <= t < 1
\* and sticky says t > 0; a has at least MantBits + 2 bits when sticky
RoundNat(s, a, e, sticky) == RoundBits(s, a, e, sticky, BitLen(a))

\* the integer i as a float
RInt(i) == RoundNat(IntSign(i), NatFromInt(IntAbs(i)), 0, FALSE)

RIsZero(a) == a.k = "fin" /\ a.m = <<>>

RNeg(a) ==
  IF a.k = "fin" THEN RFin(-a.s, a.m, a.e) ELSE IF a.k = "inf" THEN RInf(-a.s) ELSE a

RAbs(a) ==
  IF a.k = "fin" THEN RFin(1, a.m, a.e) ELSE IF a.k = "inf" THEN RInf(1) ELSE a

\* the exponent gap beyond which the smaller operand of a sum is rounded away
AbsorbGap == 64

\* |x - y|
NatDiff(x, y) == IF NatCmp(x, y) >= 0 THEN NatSub(x, y) ELSE NatSub(y, x)

\* (hs * x + ls * y) * 2^e, rounded
RAddMant(hs, x, ls, y, e) ==
  RoundNat(IF hs = ls \/ NatCmp(x, y) >= 0 THEN hs ELSE ls,
           IF hs = ls THEN NatAdd(x, y) ELSE NatDiff(x, y), e, FALSE)

\* hi + lo for finite nonzero hi, lo with hi.e >= lo.e
RAddAligned(hi, lo) ==
  IF hi.e - lo.e > AbsorbGap THEN hi
  ELSE RAddMant(hi.s, NatShlBits(hi.m, hi.e - lo.e), lo.s, lo.m, lo.e)

RAdd(a, b) ==
  IF a.k = "nan" \/ b.k = "nan" THEN RNaN
  ELSE IF a.k = "inf" /\ b.k = "inf" THEN (IF a.s = b.s THEN a ELSE RNaN)
  ELSE IF a.k = "inf" THEN a
  ELSE IF b.k = "inf" THEN b
  ELSE IF a.m = <<>> THEN b
  ELSE IF b.m = <<>> THEN a
  ELSE RAddAligned(IF a.e >= b.e THEN a ELSE b, IF a.e >= b.e THEN b ELSE a)

RSub(a, b) == RAdd(a, RNeg(b))

RMul(a, b) ==
  IF a.k = "nan" \/ b.k = "nan" THEN RNaN
  ELSE IF a.k = "inf" \/ b.k = "inf"
       THEN (IF RIsZero(a) \/ RIsZero(b) THEN RNaN ELSE RInf(a.s * b.s))
  ELSE IF a.m = <<>> \/ b.m = <<>> THEN RZero
  ELSE RoundNat(a.s * b.s, NatMul(a.m, b.m), a.e + b.e, FALSE)

\* the extra bits a quotient is computed with before it is rounded
GuardBits == 56

\* s * (x / y) * 2^e rounded, q being floor(x / y): inexact when q * y # x
RDivQuot(s, x, y, e, q) == RoundNat(s, q, e, NatMul(q, y) # x)

RDivMant(s, x, y, e) == RDivQuot(s, x, y, e, NatDiv(x, y))

\* numpy float division: x/0 is inf or nan, never an exception
RDiv(a, b) ==
  IF a.k = "nan" \/ b.k = "nan" THEN RNaN
  ELSE IF a.k = "inf" THEN (IF b.k = "inf" THEN RNaN ELSE RInf(a.s * b.s))
  ELSE IF b.k = "inf" THEN RZero
  ELSE IF RIsZero(b) THEN (IF RIsZero(a) THEN RNaN ELSE RInf(a.s))
  ELSE IF a.m = <<>> THEN RZero
  ELSE RDivMant(a.s * b.s, NatShlBits(a.m, GuardBits), b.m, a.e - b.e - GuardBits)

\* a > b for finite a, b
RGtFin(a, b) ==
  IF a.m = <<>> THEN b.m # <<>> /\ b.s = -1
  ELSE IF b.m = <<>> THEN a.s = 1
  ELSE IF a.s # b.s THEN a.s = 1
  ELSE LET bigger == a.e > b.e \/ (a.e = b.e /\ NatCmp(a.m, b.m) > 0)
           smaller == a.e < b.e \/ (a.e = b.e /\ NatCmp(a.m, b.m) < 0)
       IN  IF a.s = 1 THEN bigger ELSE smaller

\* a > b; any comparison with nan is False
RGt(a, b) ==
  IF a.k = "nan" \/ b.k = "nan" THEN FALSE
  ELSE IF a.k = "inf" THEN a.s = 1 /\ ~(b.k = "inf" /\ b.s = 1)
  ELSE IF b.k = "inf" THEN b.s = -1
  ELSE RGtFin(a, b)

RLe(a, b) == a.k # "nan" /\ b.k # "nan" /\ ~RGt(a, b)

\* int(a): truncation toward zero, for finite a with |a| < 2^31
RTrunc(a) ==
  IF a.m = <<>> THEN 0
  ELSE IF a.e >= 0 THEN a.s * NatToInt(NatShlBits(a.m, a.e))
  ELSE a.s * NatToInt(NatShrBits(a.m, -a.e))

(***************************************************************************)
(* x ** y.  CPython's float ** calls the C library's pow, which is not     *)
(* correctly rounded: the operators below are that routine (glibc 2.36,    *)
(* x86-64 with FMA), operation by operation: log(x) as a double-double     *)
(* from a 128-entry table and a polynomial, times y, then exp of the       *)
(* product from a second 128-entry table and a polynomial.  The tables and *)
(* coefficients are the library's.                                         *)
(***************************************************************************)
\* a * b + t with one rounding, for nonzero finite a, b, t: the exact product
\* ps * pm * 2^pe added to t
RFmaAligned(ps, pm, pe, t) ==
  IF pe >= t.e THEN RAddMant(ps, NatShlBits(pm, pe - t.e), t.s, t.m, t.e)
  ELSE RAddMant(ps, pm, t.s, NatShlBits(t.m, t.e - pe), pe)

\* fma(a, b, t) for finite a, b, t
RFma(a, b, t) ==
  IF a.m = <<>> \/ b.m = <<>> THEN t
  ELSE IF t.m = <<>> THEN RMul(a, b)
  ELSE RFmaAligned(a.s * b.s, NatMul(a.m, b.m), a.e + b.e, t)

\* the significand of OFF = 0x3fe6955500000000, the lower end of the range
\* [OFF, 2 * OFF) the argument of log is scaled into, and its fraction bits
PowOffMant == <<0, 0, 5456, 1445>>

PowOffFrac == <<0, 0, 5456, 421>>

\* the table index is taken from the top PowLogTableBits fraction bits of
\* x - OFF
PowLogTableBits == 7

\* the bits of a binary64 fraction
FracBits == 52

Ln2hi == RFin(1, <<14336, 15336, 9263, 1419>>, -53)

Ln2lo == RFin(1, <<10032, 3869, 13689, 1980>>, -97)

\* the coefficients A[0] .. A[6] of log(1 + r) - r
pow_log_poly ==
  <<RFin(-1, <<0, 0, 0, 1024>>, -53),
    RFin(-1, <<5472, 5461, 5461, 1365>>, -53),
    RFin(1, <<6, 0, 0, 1024>>, -53),
    RFin(1, <<5454, 9573, 6553, 1638>>, -53),
    RFin(-1, <<9338, 5286, 5461, 1365>>, -53),
    RFin(-1, <<1513, 11553, 5561, 1170>>, -52),
    RFin(1, <<16323, 11416, 696, 1024>>, -52)>>

\* per subinterval: invc close to 1/c for its centre c, logc and logctail
\* the two parts of log(c)
pow_log_tab ==
  <<<<RFin(1, <<0, 0, 0, 1448>>, -52), RFin(-1, <<2048, 2791, 2095, 1419>>, -54), RFin(1, <<5760, 8413, 578, 1709>>, -100)>>,
    <<RFin(1, <<0, 0, 0, 1440>>, -52), RFin(-1, <<2048, 15712, 7131, 1396>>, -54), RFin(-1, <<14112, 9091, 4237, 1833>>, -98)>>,
    <<RFin(1, <<0, 0, 0, 1432>>, -52), RFin(-1, <<6144, 7445, 10097, 1373>>, -54), RFin(-1, <<4205, 5849, 10829, 1240>>, -97)>>,
    <<RFin(1, <<0, 0, 0, 1424>>, -52), RFin(-1, <<14336, 7351, 10968, 1350>>, -54), RFin(-1, <<10197, 15041, 3657, 1441>>, -101)>>,
    <<RFin(1, <<0, 0, 0, 1416>>, -52), RFin(-1, <<14336, 5597, 9721, 1327>>, -54), RFin(-1, <<16096, 3236, 13977, 1286>>, -99)>>,
    <<RFin(1, <<0, 0, 0, 1408>>, -52), RFin(-1, <<8192, 2161, 6332, 1304>>, -54), RFin(1, <<1228, 8498, 756, 1270>>, -98)>>,
    <<RFin(1, <<0, 0, 0, 1400>>, -52), RFin(-1, <<10240, 6682, 776, 1281>>, -54), RFin(1, <<2874, 13832, 12094, 1808>>, -102)>>,
    <<RFin(1, <<0, 0, 0, 1392>>, -52), RFin(-1, <<2048, 5541, 9413, 1257>>, -54), RFin(1, <<5216, 6470, 7272, 1068>>, -97)>>,
    <<RFin(1, <<0, 0, 0, 1384>>, -52), RFin(-1, <<0, 10850, 15833, 1233>>, -54), RFin(1, <<146, 4886, 5341, 1366>>, -97)>>,
    <<RFin(1, <<0, 0, 0, 1376>>, -52), RFin(-1, <<8192, 11140, 3627, 1210>>, -54), RFin(1, <<11224, 9948, 12777, 1438>>, -97)>>,
    <<RFin(1, <<0, 0, 0, 1368>>, -52), RFin(-1, <<2048, 3962, 5537, 1186>>, -54), RFin(1, <<12351, 6974, 8523, 1394>>, -98)>>,
    <<RFin(1, <<0, 0, 0, 1368>>, -52), RFin(-1, <<2048, 3962, 5537, 1186>>, -54), RFin(1, <<12351, 6974, 8523, 1394>>, -98)>>,
    <<RFin(1, <<0, 0, 0, 1360>>, -52), RFin(-1, <<14336, 12093, 5151, 1162>>, -54), RFin(-1, <<6774, 8527, 8770, 1430>>, -98)>>,
    <<RFin(1, <<0, 0, 0, 1352>>, -52), RFin(-1, <<6144, 1446, 2444, 1138>>, -54), RFin(-1, <<5124, 9117, 15302, 2027>>, -98)>>,
    <<RFin(1, <<0, 0, 0, 1344>>, -52), RFin(-1, <<10240, 11950, 13770, 1113>>, -54), RFin(1, <<10480, 3594, 15459, 1991>>, -98)>>,
    <<RFin(1, <<0, 0, 0, 1336>>, -52), RFin(-1, <<2048, 9913, 6335, 1089>>, -54), RFin(-1, <<6758, 13333, 3151, 1450>>, -97)>>,
    <<RFin(1, <<0, 0, 0, 1328>>, -52), RFin(-1, <<4096, 2510, 12878, 1064>>, -54), RFin(-1, <<782, 15312, 16103, 1818>>, -99)>>,
    <<RFin(1, <<0, 0, 0, 1320>>, -52), RFin(-1, <<4096, 4819, 601, 1040>>, -54), RFin(-1, <<11647, 15312, 11145, 1037>>, -100)>>,
    <<RFin(1, <<0, 0, 0, 1320>>, -52), RFin(-1, <<4096, 4819, 601, 1040>>, -54), RFin(-1, <<11647, 15312, 11145, 1037>>, -100)>>,
    <<RFin(1, <<0, 0, 0, 1312>>, -52), RFin(-1, <<0, 13689, 4486, 2030>>, -55), RFin(1, <<15495, 11876, 12970, 1877>>, -99)>>,
    <<RFin(1, <<0, 0, 0, 1304>>, -52), RFin(-1, <<8192, 12145, 2780, 1980>>, -55), RFin(1, <<12068, 12826, 11129, 1737>>, -97)>>,
    <<RFin(1, <<0, 0, 0, 1296>>, -52), RFin(-1, <<12288, 14507, 12406, 1929>>, -55), RFin(-1, <<16144, 4351, 13557, 1483>>, -98)>>,
    <<RFin(1, <<0, 0, 0, 1288>>, -52), RFin(-1, <<0, 11583, 534, 1879>>, -55), RFin(1, <<10267, 12073, 10523, 1134>>, -97)>>,
    <<RFin(1, <<0, 0, 0, 1280>>, -52), RFin(-1, <<8192, 7786, 16252, 1827>>, -55), RFin(1, <<1076, 8830, 5366, 1502>>, -97)>>,
    <<RFin(1, <<0, 0, 0, 1280>>, -52), RFin(-1, <<8192, 7786, 16252, 1827>>, -55), RFin(1, <<1076, 8830, 5366, 1502>>, -97)>>,
    <<RFin(1, <<0, 0, 0, 1272>>, -52), RFin(-1, <<4096, 4278, 10343, 1776>>, -55), RFin(1, <<14223, 1582, 11011, 1619>>, -98)>>,
    <<RFin(1, <<0, 0, 0, 1264>>, -52), RFin(-1, <<0, 14851, 15508, 1724>>, -55), RFin(1, <<4198, 16182, 9779, 1683>>, -104)>>,
    <<RFin(1, <<0, 0, 0, 1256>>, -52), RFin(-1, <<12288, 16266, 15297, 1672>>, -55), RFin(-1, <<490, 12571, 1613, 1379>>, -97)>>,
    <<RFin(1, <<0, 0, 0, 1256>>, -52), RFin(-1, <<12288, 16266, 15297, 1672>>, -55), RFin(-1, <<490, 12571, 1613, 1379>>, -97)>>,
    <<RFin(1, <<0, 0, 0, 1248>>, -52), RFin(-1, <<4096, 13265, 9641, 1620>>, -55), RFin(-1, <<5347, 4871, 7568, 1716>>, -97)>>,
    <<RFin(1, <<0, 0, 0, 1240>>, -52), RFin(-1, <<4096, 5251, 14854, 1567>>, -55), RFin(1, <<14857, 16239, 7159, 1775>>, -97)>>,
    <<RFin(1, <<0, 0, 0, 1232>>, -52), RFin(-1, <<8192, 2115, 14480, 1514>>, -55), RFin(1, <<2648, 2381, 14599, 1782>>, -97)>>,
    <<RFin(1, <<0, 0, 0, 1232>>, -52), RFin(-1, <<8192, 2115, 14480, 1514>>, -55), RFin(1, <<2648, 2381, 14599, 1782>>, -97)>>,
    <<RFin(1, <<0, 0, 0, 1224>>, -52), RFin(-1, <<4096, 7271, 8446, 1461>>, -55), RFin(-1, <<8806, 3787, 1706, 1081>>, -98)>>,
    <<RFin(1, <<0, 0, 0, 1216>>, -52), RFin(-1, <<4096, 670, 13063, 1407>>, -55), RFin(-1, <<4153, 15425, 9273, 1959>>, -98)>>,
    <<RFin(1, <<0, 0, 0, 1216>>, -52), RFin(-1, <<4096, 670, 13063, 1407>>, -55), RFin(-1, <<4153, 15425, 9273, 1959>>, -98)>>,
    <<RFin(1, <<0, 0, 0, 1208>>, -52), RFin(-1, <<12288, 3718, 11870, 1353>>, -55), RFin(-1, <<7055, 29, 10425, 1079>>, -97)>>,
    <<RFin(1, <<0, 0, 0, 1200>>, -52), RFin(-1, <<0, 13102, 4790, 1299>>, -55), RFin(1, <<14396, 1237, 3094, 1475>>, -98)>>,
    <<RFin(1, <<0, 0, 0, 1200>>, -52), RFin(-1, <<0, 13102, 4790, 1299>>, -55), RFin(1, <<14396, 1237, 3094, 1475>>, -98)>>,
    <<RFin(1, <<0, 0, 0, 1192>>, -52), RFin(-1, <<4096, 122, 8130, 1244>>, -55), RFin(1, <<5178, 13469, 2148, 1118>>, -100)>>,
    <<RFin(1, <<0, 0, 0, 1184>>, -52), RFin(-1, <<12288, 8319, 5423, 1189>>, -55), RFin(-1, <<1032, 7623, 4865, 1315>>, -97)>>,
    <<RFin(1, <<0, 0, 0, 1176>>, -52), RFin(-1, <<8192, 5309, 12973, 1133>>, -55), RFin(-1, <<9110, 8262, 2625, 1952>>, -97)>>,
    <<RFin(1, <<0, 0, 0, 1176>>, -52), RFin(-1, <<8192, 5309, 12973, 1133>>, -55), RFin(-1, <<9110, 8262, 2625, 1952>>, -97)>>,
    <<RFin(1, <<0, 0, 0, 1168>>, -52), RFin(-1, <<4096, 13122, 14311, 1077>>, -55), RFin(1, <<7156, 9121, 6504, 1690>>, -99)>>,
    <<RFin(1, <<0, 0, 0, 1168>>, -52), RFin(-1, <<4096, 13122, 14311, 1077>>, -55), RFin(1, <<7156, 9121, 6504, 1690>>, -99)>>,
    <<RFin(1, <<0, 0, 0, 1160>>, -52), RFin(-1, <<8192, 1903, 2323, 2043>>, -56), RFin(-1, <<13298, 12940, 5445, 1373>>, -97)>>,
    <<RFin(1, <<0, 0, 0, 1152>>, -52), RFin(-1, <<0, 14508, 12406, 1929>>, -56), RFin(1, <<60, 11200, 706, 1677>>, -97)>>,
    <<RFin(1, <<0, 0, 0, 1152>>, -52), RFin(-1, <<0, 14508, 12406, 1929>>, -56), RFin(1, <<60, 11200, 706, 1677>>, -97)>>,
    <<RFin(1, <<0, 0, 0, 1144>>, -52), RFin(-1, <<0, 15727, 9544, 1815>>, -56), RFin(-1, <<15878, 8574, 1397, 1859>>, -98)>>,
    <<RFin(1, <<0, 0, 0, 1136>>, -52), RFin(-1, <<8192, 10539, 9939, 1700>>, -56), RFin(1, <<10952, 8558, 4958, 1358>>, -97)>>,
    <<RFin(1, <<0, 0, 0, 1136>>, -52), RFin(-1, <<8192, 10539, 9939, 1700>>, -56), RFin(1, <<10952, 8558, 4958, 1358>>, -97)>>,
    <<RFin(1, <<0, 0, 0, 1128>>, -52), RFin(-1, <<8192, 6342, 13405, 1584>>, -56), RFin(1, <<5736, 13501, 660, 1247>>, -98)>>,
    <<RFin(1, <<0, 0, 0, 1128>>, -52), RFin(-1, <<8192, 6342, 13405, 1584>>, -56), RFin(1, <<5736, 13501, 660, 1247>>, -98)>>,
    <<RFin(1, <<0, 0, 0, 1120>>, -52), RFin(-1, <<8192, 11157, 3368, 1468>>, -56), RFin(-1, <<13274, 9421, 13180, 1445>>, -97)>>,
    <<RFin(1, <<0, 0, 0, 1112>>, -52), RFin(-1, <<8192, 15384, 12403, 1350>>, -56), RFin(1, <<7767, 1817, 9654, 1984>>, -98)>>,
    <<RFin(1, <<0, 0, 0, 1112>>, -52), RFin(-1, <<8192, 15384, 12403, 1350>>, -56), RFin(1, <<7767, 1817, 9654, 1984>>, -98)>>,
    <<RFin(1, <<0, 0, 0, 1104>>, -52), RFin(-1, <<8192, 6255, 7545, 1232>>, -56), RFin(1, <<5087, 13284, 11692, 1815>>, -97)>>,
    <<RFin(1, <<0, 0, 0, 1104>>, -52), RFin(-1, <<8192, 6255, 7545, 1232>>, -56), RFin(1, <<5087, 13284, 11692, 1815>>, -97)>>,
    <<RFin(1, <<0, 0, 0, 1096>>, -52), RFin(-1, <<0, 14990, 4974, 1113>>, -56), RFin(1, <<8969, 6718, 1511, 1311>>, -98)>>,
    <<RFin(1, <<0, 0, 0, 1088>>, -52), RFin(-1, <<0, 70, 8972, 1986>>, -57), RFin(1, <<3729, 3290, 6632, 1878>>, -97)>>,
    <<RFin(1, <<0, 0, 0, 1088>>, -52), RFin(-1, <<0, 70, 8972, 1986>>, -57), RFin(1, <<3729, 3290, 6632, 1878>>, -97)>>,
    <<RFin(1, <<0, 0, 0, 1080>>, -52), RFin(-1, <<0, 1126, 11735, 1744>>, -57), RFin(1, <<12364, 5977, 10158, 1824>>, -98)>>,
    <<RFin(1, <<0, 0, 0, 1080>>, -52), RFin(-1, <<0, 1126, 11735, 1744>>, -57), RFin(1, <<12364, 5977, 10158, 1824>>, -98)>>,
    <<RFin(1, <<0, 0, 0, 1072>>, -52), RFin(-1, <<0, 6347, 1423, 1501>>, -57), RFin(-1, <<8686, 5066, 1123, 1855>>, -97)>>,
    <<RFin(1, <<0, 0, 0, 1072>>, -52), RFin(-1, <<0, 6347, 1423, 1501>>, -57), RFin(-1, <<8686, 5066, 1123, 1855>>, -97)>>,
    <<RFin(1, <<0, 0, 0, 1064>>, -52), RFin(-1, <<0, 10235, 10363, 1255>>, -57), RFin(1, <<16042, 5275, 11135, 1344>>, -100)>>,
    <<RFin(1, <<0, 0, 0, 1064>>, -52), RFin(-1, <<0, 10235, 10363, 1255>>, -57), RFin(1, <<16042, 5275, 11135, 1344>>, -100)>>,
    <<RFin(1, <<0, 0, 0, 1056>>, -52), RFin(-1, <<0, 14816, 10672, 2016>>, -58), RFin(-1, <<2532, 12792, 615, 1632>>, -97)>>,
    <<RFin(1, <<0, 0, 0, 1056>>, -52), RFin(-1, <<0, 14816, 10672, 2016>>, -58), RFin(-1, <<2532, 12792, 615, 1632>>, -97)>>,
    <<RFin(1, <<0, 0, 0, 1048>>, -52), RFin(-1, <<0, 8022, 4528, 1518>>, -58), RFin(-1, <<9785, 4074, 5449, 1571>>, -97)>>,
    <<RFin(1, <<0, 0, 0, 1040>>, -52), RFin(-1, <<0, 1008, 2699, 2032>>, -59), RFin(-1, <<9884, 6990, 10191, 1991>>, -102)>>,
    <<RFin(1, <<0, 0, 0, 1040>>, -52), RFin(-1, <<0, 1008, 2699, 2032>>, -59), RFin(-1, <<9884, 6990, 10191, 1991>>, -102)>>,
    <<RFin(1, <<0, 0, 0, 1032>>, -52), RFin(-1, <<0, 11328, 678, 2040>>, -60), RFin(-1, <<228, 14185, 9200, 1656>>, -98)>>,
    <<RFin(1, <<0, 0, 0, 1032>>, -52), RFin(-1, <<0, 11328, 678, 2040>>, -60), RFin(-1, <<228, 14185, 9200, 1656>>, -98)>>,
    <<RFin(1, <<0, 0, 0, 1024>>, -52), RZero, RZero>>,
    <<RFin(1, <<0, 0, 0, 1024>>, -52), RZero, RZero>>,
    <<RFin(1, <<0, 0, 0, 2032>>, -53), RFin(1, <<0, 5668, 343, 1028>>, -59), RFin(-1, <<11240, 9844, 14009, 1073>>, -98)>>,
    <<RFin(1, <<0, 0, 0, 2016>>, -53), RFin(1, <<0, 8782, 1381, 1032>>, -58), RFin(-1, <<14290, 7051, 1456, 1271>>, -97)>>,
    <<RFin(1, <<0, 0, 0, 2000>>, -53), RFin(1, <<0, 8996, 4690, 1554>>, -58), RFin(-1, <<3124, 2408, 2979, 1704>>, -97)>>,
    <<RFin(1, <<0, 0, 0, 1984>>, -53), RFin(1, <<0, 10141, 5592, 1040>>, -57), RFin(1, <<5971, 13255, 7173, 1092>>, -99)>>,
    <<RFin(1, <<0, 0, 0, 1968>>, -53), RFin(1, <<0, 4280, 10989, 1305>>, -57), RFin(-1, <<15656, 5879, 10039, 1797>>, -97)>>,
    <<RFin(1, <<0, 0, 0, 1952>>, -53), RFin(1, <<0, 4735, 2721, 1573>>, -57), RFin(-1, <<9853, 360, 6493, 1630>>, -98)>>,
    <<RFin(1, <<0, 0, 0, 1936>>, -53), RFin(1, <<0, 14199, 14140, 1842>>, -57), RFin(-1, <<10247, 8032, 3876, 1690>>, -98)>>,
    <<RFin(1, <<0, 0, 0, 1928>>, -53), RFin(1, <<0, 27, 8988, 1978>>, -57), RFin(-1, <<15227, 16164, 5092, 1924>>, -99)>>,
    <<RFin(1, <<0, 0, 0, 1912>>, -53), RFin(1, <<8192, 1305, 13245, 1125>>, -56), RFin(-1, <<7835, 6198, 9685, 1356>>, -97)>>,
    <<RFin(1, <<0, 0, 0, 1896>>, -53), RFin(1, <<8192, 8007, 8026, 1263>>, -56), RFin(1, <<3799, 5997, 1514, 1842>>, -97)>>,
    <<RFin(1, <<0, 0, 0, 1880>>, -53), RFin(1, <<8192, 13918, 5540, 1402>>, -56), RFin(-1, <<7454, 12660, 4195, 1818>>, -97)>>,
    <<RFin(1, <<0, 0, 0, 1872>>, -53), RFin(1, <<0, 11179, 3376, 1472>>, -56), RFin(1, <<11570, 9847, 10458, 1799>>, -101)>>,
    <<RFin(1, <<0, 0, 0, 1856>>, -53), RFin(1, <<0, 13669, 13797, 1612>>, -56), RFin(1, <<2010, 10997, 5571, 1220>>, -97)>>,
    <<RFin(1, <<0, 0, 0, 1840>>, -53), RFin(1, <<8192, 14005, 11400, 1754>>, -56), RFin(-1, <<10469, 12253, 2050, 1252>>, -98)>>,
    <<RFin(1, <<0, 0, 0, 1832>>, -53), RFin(1, <<0, 1777, 1408, 1826>>, -56), RFin(1, <<11475, 6506, 11548, 1425>>, -97)>>,
    <<RFin(1, <<0, 0, 0, 1816>>, -53), RFin(1, <<8192, 3112, 13208, 1969>>, -56), RFin(-1, <<1504, 16281, 1674, 1904>>, -97)>>,
    <<RFin(1, <<0, 0, 0, 1808>>, -53), RFin(1, <<8192, 10095, 2323, 2042>>, -56), RFin(-1, <<2813, 16004, 3428, 1357>>, -97)>>,
    <<RFin(1, <<0, 0, 0, 1792>>, -53), RFin(1, <<8192, 2207, 14568, 1093>>, -55), RFin(1, <<2034, 14516, 14220, 1147>>, -97)>>,
    <<RFin(1, <<0, 0, 0, 1784>>, -53), RFin(1, <<12288, 14479, 8887, 1130>>, -55), RFin(1, <<6452, 4322, 14564, 1833>>, -97)>>,
    <<RFin(1, <<0, 0, 0, 1768>>, -53), RFin(1, <<0, 12826, 5648, 1204>>, -55), RFin(1, <<13473, 11782, 5836, 1255>>, -99)>>,
    <<RFin(1, <<0, 0, 0, 1760>>, -53), RFin(1, <<4096, 86, 8139, 1241>>, -55), RFin(1, <<12937, 3373, 14978, 1419>>, -103)>>,
    <<RFin(1, <<0, 0, 0, 1744>>, -53), RFin(1, <<12288, 3278, 5080, 1316>>, -55), RFin(1, <<13944, 5110, 14229, 1376>>, -97)>>,
    <<RFin(1, <<0, 0, 0, 1736>>, -53), RFin(1, <<12288, 4742, 15966, 1353>>, -55), RFin(1, <<15815, 5541, 16014, 1420>>, -97)>>,
    <<RFin(1, <<0, 0, 0, 1720>>, -53), RFin(1, <<4096, 14896, 13547, 1429>>, -55), RFin(1, <<11896, 12528, 14514, 1651>>, -98)>>,
    <<RFin(1, <<0, 0, 0, 1712>>, -53), RFin(1, <<12288, 11733, 296, 1468>>, -55), RFin(-1, <<8673, 5744, 6366, 1348>>, -97)>>,
    <<RFin(1, <<0, 0, 0, 1704>>, -53), RFin(1, <<4096, 5393, 6360, 1506>>, -55), RFin(-1, <<773, 581, 8455, 1817>>, -98)>>,
    <<RFin(1, <<0, 0, 0, 1688>>, -53), RFin(1, <<0, 11492, 11006, 1583>>, -55), RFin(-1, <<11473, 11172, 5450, 1487>>, -99)>>,
    <<RFin(1, <<0, 0, 0, 1680>>, -53), RFin(1, <<0, 13276, 9645, 1622>>, -55), RFin(1, <<16239, 8835, 8837, 1532>>, -99)>>,
    <<RFin(1, <<0, 0, 0, 1664>>, -53), RFin(1, <<8192, 12843, 16083, 1700>>, -55), RFin(-1, <<8553, 344, 9269, 1564>>, -97)>>,
    <<RFin(1, <<0, 0, 0, 1656>>, -53), RFin(1, <<4096, 7535, 7557, 1740>>, -55), RFin(-1, <<8618, 15027, 6356, 1805>>, -99)>>,
    <<RFin(1, <<0, 0, 0, 1648>>, -53), RFin(1, <<8192, 8431, 2163, 1780>>, -55), RFin(-1, <<4790, 9552, 15429, 1874>>, -97)>>,
    <<RFin(1, <<0, 0, 0, 1640>>, -53), RFin(1, <<4096, 7104, 16316, 1819>>, -55), RFin(-1, <<11218, 5720, 1836, 1147>>, -100)>>,
    <<RFin(1, <<0, 0, 0, 1624>>, -53), RFin(1, <<4096, 850, 5083, 1900>>, -55), RFin(-1, <<12341, 7254, 12975, 1727>>, -97)>>,
    <<RFin(1, <<0, 0, 0, 1616>>, -53), RFin(1, <<4096, 16284, 12527, 1940>>, -55), RFin(1, <<13360, 263, 8822, 1156>>, -103)>>,
    <<RFin(1, <<0, 0, 0, 1608>>, -53), RFin(1, <<0, 4980, 6878, 1981>>, -55), RFin(-1, <<3601, 5870, 4438, 1672>>, -103)>>,
    <<RFin(1, <<0, 0, 0, 1600>>, -53), RFin(1, <<12288, 13006, 4550, 2022>>, -55), RFin(1, <<7984, 10291, 16076, 1778>>, -98)>>,
    <<RFin(1, <<0, 0, 0, 1584>>, -53), RFin(1, <<6144, 309, 4998, 1052>>, -54), RFin(1, <<3729, 7093, 3505, 1575>>, -100)>>,
    <<RFin(1, <<0, 0, 0, 1576>>, -53), RFin(1, <<8192, 7557, 726, 1073>>, -54), RFin(1, <<10985, 6387, 2225, 1478>>, -97)>>,
    <<RFin(1, <<0, 0, 0, 1568>>, -53), RFin(1, <<10240, 2207, 14568, 1093>>, -54), RFin(-1, <<12316, 3735, 4326, 1800>>, -97)>>,
    <<RFin(1, <<0, 0, 0, 1560>>, -53), RFin(1, <<14336, 11955, 13772, 1114>>, -54), RFin(1, <<5761, 7828, 11487, 1766>>, -97)>>,
    <<RFin(1, <<0, 0, 0, 1552>>, -53), RFin(1, <<10240, 3433, 14742, 1135>>, -54), RFin(1, <<15799, 1310, 11989, 1833>>, -97)>>,
    <<RFin(1, <<0, 0, 0, 1544>>, -53), RFin(1, <<14336, 13370, 1110, 1157>>, -54), RFin(1, <<15082, 10522, 15851, 1697>>, -99)>>,
    <<RFin(1, <<0, 0, 0, 1528>>, -53), RFin(1, <<4096, 13170, 12039, 1199>>, -54), RFin(1, <<1268, 10560, 4004, 1703>>, -97)>>,
    <<RFin(1, <<0, 0, 0, 1520>>, -53), RFin(1, <<8192, 1869, 3870, 1221>>, -54), RFin(-1, <<15544, 3204, 10157, 1592>>, -97)>>,
    <<RFin(1, <<0, 0, 0, 1512>>, -53), RFin(1, <<4096, 6904, 13943, 1242>>, -54), RFin(1, <<14280, 965, 11483, 1115>>, -98)>>,
    <<RFin(1, <<0, 0, 0, 1504>>, -53), RFin(1, <<12288, 7372, 9511, 1264>>, -54), RFin(1, <<15708, 6170, 13643, 1550>>, -98)>>,
    <<RFin(1, <<0, 0, 0, 1496>>, -53), RFin(1, <<10240, 3927, 6978, 1286>>, -54), RFin(1, <<8349, 12867, 878, 1593>>, -99)>>,
    <<RFin(1, <<0, 0, 0, 1488>>, -53), RFin(1, <<2048, 2503, 6364, 1308>>, -54), RFin(-1, <<5749, 9631, 15584, 1993>>, -97)>>,
    <<RFin(1, <<0, 0, 0, 1480>>, -53), RFin(1, <<12288, 14428, 7689, 1330>>, -54), RFin(-1, <<6308, 11307, 2193, 1928>>, -97)>>,
    <<RFin(1, <<0, 0, 0, 1472>>, -53), RFin(1, <<8192, 7394, 10976, 1352>>, -54), RFin(1, <<1881, 1427, 9992, 1967>>, -97)>>,
    <<RFin(1, <<0, 0, 0, 1464>>, -53), RFin(1, <<4096, 3875, 16245, 1374>>, -54), RFin(1, <<239, 14709, 7902, 2027>>, -98)>>,
    <<RFin(1, <<0, 0, 0, 1456>>, -53), RFin(1, <<8192, 15717, 7133, 1397>>, -54), RFin(-1, <<9692, 8849, 12960, 1666>>, -99)>>>>

\* N / ln 2 for N = 128, the rounding shift 0x1.8p52, and ln 2 / N negated
\* in two parts
InvLn2N == RFin(1, <<766, 5294, 5238, 1477>>, -45)

Shift == RFin(1, <<0, 0, 0, 1536>>, 0)

NegLn2hiN == RFin(-1, <<0, 15336, 9263, 1419>>, -60)

NegLn2loN == RFin(-1, <<15162, 12920, 14763, 1853>>, -99)

\* the subintervals of the exp table
ExpTableSize == 128

\* the coefficients C2 .. C5 of exp(r) - 1 - r
exp_poly ==
  <<RFin(1, <<15805, 16383, 16383, 2047>>, -54),
    RFin(1, <<5180, 5461, 5461, 1365>>, -55),
    RFin(1, <<11153, 15452, 5468, 1365>>, -57),
    RFin(1, <<4119, 7827, 4374, 1092>>, -59)>>

\* per j: the tail and the head of 2^(j/128)
exp_tab ==
  <<<<RZero, RFin(1, <<0, 0, 0, 1024>>, -52)>>,
    <<RFin(1, <<16238, 10786, 13553, 1742>>, -106), RFin(1, <<13109, 10220, 9178, 1029>>, -52)>>,
    <<RFin(-1, <<7261, 13155, 313, 1112>>, -108), RFin(1, <<97, 14814, 2467, 1035>>, -52)>>,
    <<RFin(-1, <<9937, 541, 10145, 1047>>, -106), RFin(1, <<16261, 8633, 12638, 1040>>, -52)>>,
    <<RFin(1, <<13843, 5535, 9507, 1844>>, -107), RFin(1, <<1396, 3158, 6925, 1046>>, -52)>>,
    <<RFin(-1, <<3834, 4070, 10242, 1779>>, -107), RFin(1, <<14046, 10103, 1714, 1052>>, -52)>>,
    <<RFin(1, <<2145, 1947, 13542, 1085>>, -109), RFin(1, <<7112, 8662, 13393, 1057>>, -52)>>,
    <<RFin(1, <<5017, 11471, 15941, 1064>>, -106), RFin(1, <<13187, 11035, 9196, 1063>>, -52)>>,
    <<RFin(1, <<15213, 13837, 10853, 1510>>, -106), RFin(1, <<2319, 13286, 5510, 1069>>, -52)>>,
    <<RFin(1, <<12284, 3063, 4521, 1965>>, -107), RFin(1, <<2039, 11721, 2338, 1075>>, -52)>>,
    <<RFin(1, <<7377, 190, 9175, 1967>>, -112), RFin(1, <<4514, 2895, 16067, 1080>>, -52)>>,
    <<RFin(-1, <<11787, 9793, 13128, 1664>>, -109), RFin(1, <<4891, 16379, 13930, 1086>>, -52)>>,
    <<RFin(-1, <<15630, 10430, 9506, 1365>>, -106), RFin(1, <<6993, 73, 12317, 1092>>, -52)>>,
    <<RFin(-1, <<10837, 12603, 3832, 1056>>, -110), RFin(1, <<12748, 432, 11228, 1098>>, -52)>>,
    <<RFin(-1, <<13334, 10071, 4667, 1138>>, -106), RFin(1, <<11744, 15012, 10666, 1104>>, -52)>>,
    <<RFin(1, <<5551, 9585, 15934, 1076>>, -107), RFin(1, <<3665, 8854, 10636, 1110>>, -52)>>,
    <<RFin(-1, <<4936, 10902, 12638, 1030>>, -107), RFin(1, <<4475, 12789, 11139, 1116>>, -52)>>,
    <<RFin(-1, <<12861, 6008, 16133, 1991>>, -107), RFin(1, <<3562, 8754, 12179, 1122>>, -52)>>,
    <<RFin(1, <<5055, 15437, 6339, 1762>>, -107), RFin(1, <<2933, 11711, 13758, 1128>>, -52)>>,
    <<RFin(-1, <<11046, 6215, 6599, 1462>>, -106), RFin(1, <<7380, 4113, 15880, 1134>>, -52)>>,
    <<RFin(1, <<12128, 14568, 3955, 1723>>, -106), RFin(1, <<14762, 1442, 2163, 1141>>, -52)>>,
    <<RFin(-1, <<14493, 11800, 14380, 2041>>, -107), RFin(1, <<6429, 3059, 5378, 1147>>, -52)>>,
    <<RFin(1, <<909, 4763, 13332, 1691>>, -107), RFin(1, <<3286, 8586, 9144, 1153>>, -52)>>,
    <<RFin(1, <<1149, 912, 8283, 1054>>, -107), RFin(1, <<7318, 1527, 13465, 1159>>, -52)>>,
    <<RFin(1, <<10388, 3746, 12254, 1443>>, -106), RFin(1, <<8760, 14805, 1958, 1166>>, -52)>>,
    <<RFin(1, <<2173, 2513, 8591, 1495>>, -107), RFin(1, <<9791, 16074, 7396, 1172>>, -52)>>,
    <<RFin(1, <<10226, 8319, 12985, 1041>>, -107), RFin(1, <<15581, 6025, 13398, 1178>>, -52)>>,
    <<RFin(-1, <<2142, 15812, 1971, 1454>>, -106), RFin(1, <<9089, 2005, 3582, 1185>>, -52)>>,
    <<RFin(1, <<11057, 13350, 15894, 1213>>, -107), RFin(1, <<7905, 5247, 10719, 1191>>, -52)>>,
    <<RFin(-1, <<16378, 10686, 6577, 1864>>, -112), RFin(1, <<6544, 875, 2045, 1198>>, -52)>>,
    <<RFin(1, <<2740, 2096, 14375, 1741>>, -107), RFin(1, <<779, 7056, 10330, 1204>>, -52)>>,
    <<RFin(1, <<2959, 10043, 2344, 1925>>, -109), RFin(1, <<12118, 9464, 2810, 1211>>, -52)>>,
    <<RFin(1, <<11190, 14018, 5972, 1235>>, -107), RFin(1, <<14101, 10438, 12256, 1217>>, -52)>>,
    <<RFin(1, <<13388, 2737, 8222, 1424>>, -107), RFin(1, <<6193, 12595, 5903, 1224>>, -52)>>,
    <<RFin(1, <<14410, 14159, 5013, 2039>>, -107), RFin(1, <<5887, 2448, 139, 1231>>, -52)>>,
    <<RFin(-1, <<6916, 11833, 14339, 1448>>, -107), RFin(1, <<8177, 15946, 11349, 1237>>, -52)>>,
    <<RFin(-1, <<4200, 12589, 11996, 1170>>, -106), RFin(1, <<10699, 7402, 6771, 1244>>, -52)>>,
    <<RFin(-1, <<11662, 11588, 16257, 1601>>, -106), RFin(1, <<6246, 13335, 2790, 1251>>, -52)>>,
    <<RFin(-1, <<14034, 14928, 7811, 1140>>, -108), RFin(1, <<8183, 5014, 15795, 1257>>, -52)>>,
    <<RFin(-1, <<6933, 3896, 4507, 1606>>, -106), RFin(1, <<10469, 3150, 13020, 1264>>, -52)>>,
    <<RFin(1, <<3181, 7337, 13450, 1383>>, -107), RFin(1, <<13346, 12360, 10852, 1271>>, -52)>>,
    <<RFin(-1, <<10634, 10401, 9735, 1220>>, -106), RFin(1, <<28, 4786, 9296, 1278>>, -52)>>,
    <<RFin(-1, <<2395, 8286, 14580, 1577>>, -110), RFin(1, <<11818, 2012, 8354, 1285>>, -52)>>,
    <<RFin(-1, <<6683, 7462, 2486, 1803>>, -108), RFin(1, <<10391, 9538, 8029, 1292>>, -52)>>,
    <<RFin(1, <<11281, 778, 16086, 1240>>, -111), RFin(1, <<2349, 390, 8326, 1299>>, -52)>>,
    <<RFin(1, <<9455, 11289, 8339, 1433>>, -106), RFin(1, <<87, 13428, 9246, 1306>>, -52)>>,
    <<RFin(1, <<889, 10884, 3613, 1971>>, -109), RFin(1, <<15568, 5892, 10795, 1313>>, -52)>>,
    <<RFin(1, <<4656, 15420, 14563, 1279>>, -106), RFin(1, <<5086, 863, 12975, 1320>>, -52)>>,
    <<RFin(1, <<12208, 11754, 3307, 1444>>, -108), RFin(1, <<10791, 5336, 15789, 1327>>, -52)>>,
    <<RFin(1, <<8311, 11603, 7134, 1223>>, -106), RFin(1, <<7437, 10231, 2857, 1335>>, -52)>>,
    <<RFin(-1, <<9102, 454, 832, 2021>>, -107), RFin(1, <<11431, 6772, 6951, 1342>>, -52)>>,
    <<RFin(-1, <<9033, 12878, 11469, 1527>>, -107), RFin(1, <<9794, 2877, 11690, 1349>>, -52)>>,
    <<RFin(-1, <<14431, 13372, 11371, 1591>>, -108), RFin(1, <<3970, 6773, 693, 1357>>, -52)>>,
    <<RFin(-1, <<7414, 12781, 9326, 1412>>, -107), RFin(1, <<4623, 10614, 6732, 1364>>, -52)>>,
    <<RFin(1, <<6030, 9207, 4177, 1229>>, -106), RFin(1, <<10202, 6868, 13427, 1371>>, -52)>>,
    <<RFin(1, <<6917, 15914, 2930, 1766>>, -108), RFin(1, <<2045, 4703, 4397, 1379>>, -52)>>,
    <<RFin(1, <<5129, 2161, 15902, 1048>>, -106), RFin(1, <<5161, 13601, 12413, 1386>>, -52)>>,
    <<RFin(1, <<1770, 103, 14421, 1329>>, -112), RFin(1, <<1719, 10597, 4712, 1394>>, -52)>>,
    <<RFin(1, <<53, 11667, 11874, 1292>>, -106), RFin(1, <<8520, 5812, 14065, 1401>>, -52)>>,
    <<RFin(-1, <<13983, 1637, 1190, 1849>>, -107), RFin(1, <<7177, 9691, 7707, 1409>>, -52)>>,
    <<RFin(-1, <<3496, 12221, 15443, 1804>>, -107), RFin(1, <<5509, 233, 2027, 1417>>, -52)>>,
    <<RFin(-1, <<10670, 9391, 14216, 1300>>, -107), RFin(1, <<800, 4915, 13411, 1424>>, -52)>>,
    <<RFin(-1, <<6232, 8537, 11735, 1267>>, -106), RFin(1, <<8741, 2388, 9096, 1432>>, -52)>>,
    <<RFin(1, <<6500, 504, 2728, 1476>>, -110), RFin(1, <<10611, 4402, 5469, 1440>>, -52)>>,
    <<RFin(-1, <<8744, 15736, 16123, 1260>>, -106), RFin(1, <<15309, 6652, 2534, 1448>>, -52)>>,
    <<RFin(-1, <<14722, 7378, 10968, 1668>>, -109), RFin(1, <<6847, 5167, 295, 1456>>, -52)>>,
    <<RFin(-1, <<10734, 8630, 16123, 1241>>, -109), RFin(1, <<6703, 12692, 15139, 1463>>, -52)>>,
    <<RFin(-1, <<2129, 4994, 981, 1079>>, -107), RFin(1, <<5252, 9542, 14303, 1471>>, -52)>>,
    <<RFin(-1, <<16079, 14696, 13895, 1543>>, -108), RFin(1, <<8052, 9137, 14174, 1479>>, -52)>>,
    <<RFin(-1, <<15792, 557, 9388, 1467>>, -107), RFin(1, <<372, 8854, 14756, 1487>>, -52)>>,
    <<RFin(-1, <<9866, 14679, 4897, 1414>>, -107), RFin(1, <<10185, 6409, 16053, 1495>>, -52)>>,
    <<RFin(1, <<5331, 14375, 3253, 1063>>, -106), RFin(1, <<7487, 16249, 1684, 1504>>, -52)>>,
    <<RFin(-1, <<9501, 9526, 11723, 1740>>, -108), RFin(1, <<391, 4012, 4423, 1512>>, -52)>>,
    <<RFin(1, <<107, 4511, 4053, 1339>>, -106), RFin(1, <<306, 1219, 7888, 1520>>, -52)>>,
    <<RFin(1, <<11349, 12121, 15898, 1402>>, -109), RFin(1, <<3682, 6973, 12083, 1528>>, -52)>>,
    <<RFin(-1, <<3906, 16079, 7250, 1576>>, -107), RFin(1, <<6674, 4344, 629, 1537>>, -52)>>,
    <<RFin(-1, <<14132, 1260, 7023, 1242>>, -106), RFin(1, <<3603, 9523, 6297, 1545>>, -52)>>,
    <<RFin(-1, <<16158, 10343, 10307, 1047>>, -107), RFin(1, <<1965, 6287, 12708, 1553>>, -52)>>,
    <<RFin(-1, <<5998, 8649, 1293, 1333>>, -106), RFin(1, <<4845, 11538, 3481, 1562>>, -52)>>,
    <<RFin(1, <<2560, 11322, 5749, 1067>>, -106), RFin(1, <<9881, 9769, 11389, 1570>>, -52)>>,
    <<RFin(1, <<10932, 1987, 13052, 1901>>, -107), RFin(1, <<8411, 2218, 3668, 1579>>, -52)>>,
    <<RFin(-1, <<10239, 13079, 9737, 1389>>, -109), RFin(1, <<1164, 6869, 13089, 1587>>, -52)>>,
    <<RFin(1, <<8004, 10189, 10293, 1789>>, -108), RFin(1, <<14134, 9301, 6889, 1596>>, -52)>>,
    <<RFin(-1, <<15747, 7288, 4602, 1218>>, -106), RFin(1, <<16326, 11847, 1456, 1605>>, -52)>>,
    <<RFin(-1, <<7721, 11696, 7048, 1898>>, -110), RFin(1, <<1509, 823, 13179, 1613>>, -52)>>,
    <<RFin(-1, <<14681, 12866, 16279, 1800>>, -109), RFin(1, <<4623, 12065, 9292, 1622>>, -52)>>,
    <<RFin(-1, <<14762, 3027, 13362, 1168>>, -106), RFin(1, <<3664, 16249, 6185, 1631>>, -52)>>,
    <<RFin(-1, <<3659, 7578, 9933, 1394>>, -107), RFin(1, <<1978, 808, 3863, 1640>>, -52)>>,
    <<RFin(1, <<3623, 11847, 16322, 1131>>, -108), RFin(1, <<12432, 2703, 2328, 1649>>, -52)>>,
    <<RFin(1, <<13243, 1065, 9054, 1908>>, -109), RFin(1, <<8995, 10124, 1585, 1658>>, -52)>>,
    <<RFin(-1, <<8803, 2440, 4162, 1521>>, -107), RFin(1, <<9573, 11639, 1639, 1667>>, -52)>>,
    <<RFin(1, <<12757, 3976, 2158, 1735>>, -107), RFin(1, <<11571, 12584, 2494, 1676>>, -52)>>,
    <<RFin(-1, <<15125, 3826, 15645, 1134>>, -106), RFin(1, <<9565, 2296, 4155, 1685>>, -52)>>,
    <<RFin(1, <<12754, 13240, 793, 1075>>, -106), RFin(1, <<13144, 3266, 6625, 1694>>, -52)>>,
    <<RFin(1, <<6835, 14797, 6214, 1306>>, -107), RFin(1, <<15807, 5607, 9909, 1703>>, -52)>>,
    <<RFin(-1, <<7604, 7738, 15577, 1207>>, -107), RFin(1, <<13178, 16207, 14011, 1712>>, -52)>>,
    <<RFin(1, <<13191, 2860, 10105, 1798>>, -107), RFin(1, <<5037, 9579, 2553, 1722>>, -52)>>,
    <<RFin(-1, <<6650, 11079, 14580, 1054>>, -106), RFin(1, <<13926, 9782, 8306, 1731>>, -52)>>,
    <<RFin(-1, <<11962, 7026, 15765, 1392>>, -110), RFin(1, <<5627, 8508, 14891, 1740>>, -52)>>,
    <<RFin(-1, <<13888, 13979, 227, 1065>>, -106), RFin(1, <<6458, 14229, 5928, 1750>>, -52)>>,
    <<RFin(-1, <<4916, 8886, 12099, 1589>>, -109), RFin(1, <<7751, 3053, 14191, 1759>>, -52)>>,
    <<RFin(-1, <<2613, 11618, 11814, 1147>>, -106), RFin(1, <<1610, 644, 6915, 1769>>, -52)>>,
    <<RFin(1, <<7629, 10623, 15728, 1343>>, -108), RFin(1, <<466, 303, 489, 1779>>, -52)>>,
    <<RFin(-1, <<6316, 10826, 8127, 1135>>, -106), RFin(1, <<7689, 12124, 11301, 1788>>, -52)>>,
    <<RFin(1, <<3251, 700, 10979, 1243>>, -108), RFin(1, <<4764, 13845, 6589, 1798>>, -52)>>,
    <<RFin(1, <<15764, 12927, 13093, 1976>>, -107), RFin(1, <<4218, 16383, 2741, 1808>>, -52)>>,
    <<RFin(1, <<6572, 1061, 2301, 1336>>, -107), RFin(1, <<4427, 14687, 16146, 1817>>, -52)>>,
    <<RFin(1, <<6759, 8504, 6899, 1267>>, -109), RFin(1, <<10165, 4123, 14041, 1827>>, -52)>>,
    <<RFin(1, <<6504, 12872, 12998, 1498>>, -109), RFin(1, <<4201, 13246, 12813, 1837>>, -52)>>,
    <<RFin(-1, <<13778, 3890, 8584, 1058>>, -107), RFin(1, <<1018, 5495, 12469, 1847>>, -52)>>,
    <<RFin(-1, <<14959, 16383, 5587, 2027>>, -107), RFin(1, <<2428, 10270, 13012, 1857>>, -52)>>,
    <<RFin(-1, <<10569, 8662, 6883, 1027>>, -106), RFin(1, <<2546, 8246, 14448, 1867>>, -52)>>,
    <<RFin(1, <<1959, 6388, 14426, 1320>>, -108), RFin(1, <<9351, 13294, 397, 1878>>, -52)>>,
    <<RFin(-1, <<8719, 256, 6626, 1188>>, -107), RFin(1, <<920, 6950, 3633, 1888>>, -52)>>,
    <<RFin(1, <<4780, 5894, 9485, 1942>>, -107), RFin(1, <<12933, 3948, 7776, 1898>>, -52)>>,
    <<RFin(1, <<11083, 12293, 9626, 1294>>, -107), RFin(1, <<13408, 3078, 12831, 1908>>, -52)>>,
    <<RFin(-1, <<15903, 7888, 4624, 1205>>, -107), RFin(1, <<7007, 3566, 2419, 1919>>, -52)>>,
    <<RFin(-1, <<3529, 11548, 11155, 1610>>, -107), RFin(1, <<8489, 5078, 9313, 1929>>, -52)>>,
    <<RFin(1, <<2259, 234, 8262, 1325>>, -108), RFin(1, <<16374, 7724, 750, 1940>>, -52)>>,
    <<RFin(1, <<12913, 1653, 7877, 1265>>, -107), RFin(1, <<3203, 12061, 9503, 1950>>, -52)>>,
    <<RFin(-1, <<4592, 16206, 12584, 2045>>, -107), RFin(1, <<4314, 2706, 2810, 1961>>, -52)>>,
    <<RFin(-1, <<13437, 2189, 10638, 1899>>, -107), RFin(1, <<10225, 13881, 13442, 1971>>, -52)>>,
    <<RFin(1, <<8200, 1704, 15300, 1968>>, -107), RFin(1, <<6695, 14725, 8638, 1982>>, -52)>>,
    <<RFin(1, <<11058, 3751, 14668, 1290>>, -107), RFin(1, <<14999, 7598, 4787, 1993>>, -52)>>,
    <<RFin(1, <<1518, 1862, 2707, 1689>>, -107), RFin(1, <<1344, 11705, 1893, 2004>>, -52)>>,
    <<RFin(-1, <<9197, 4335, 15278, 1933>>, -107), RFin(1, <<15892, 13938, 16346, 2014>>, -52)>>,
    <<RFin(1, <<3485, 13895, 5044, 1506>>, -108), RFin(1, <<4312, 1658, 15384, 2025>>, -52)>>,
    <<RFin(1, <<3209, 1411, 7188, 1217>>, -110), RFin(1, <<12785, 11837, 15394, 2036>>, -52)>>>>

\* exp(ehi + elo) - 1 in tmp, times scale = 2^(k/N): fused, except where the
\* result would be below 2^-738, which the library computes on its
\* special-case path, product and sum rounded separately
PowScaled(ehi, tmp, scale) ==
  IF ehi.s = -1 /\ ehi.e >= -43 THEN RAdd(scale, RMul(scale, tmp))
  ELSE RFma(tmp, scale, scale)

PowExpPoly(ehi, r, r2, row, kk) ==
  PowScaled(ehi,
            RFma(RFma(r, exp_poly[4], exp_poly[3]), RMul(r2, r2),
                 RFma(RFma(r, exp_poly[2], exp_poly[1]), r2, RAdd(r, row[1]))),
            RFin(1, row[2].m, row[2].e + (kk \div ExpTableSize)))

PowExpReduced(ehi, r, kk) ==
  PowExpPoly(ehi, r, RMul(r, r), exp_tab[(kk % ExpTableSize) + 1], kk)

\* r = ehi + elo - kk * ln 2 / N
PowExpIndex(ehi, elo, kk, kd) ==
  PowExpReduced(ehi, RAdd(elo, RFma(kd, NegLn2loN, RFma(kd, NegLn2hiN, ehi))), kk)

\* kd0 = ehi * N / ln 2 + Shift, whose low significand bits are the integer kk
PowExpShifted(ehi, elo, kd0) ==
  PowExpIndex(ehi, elo,
              IF NatCmp(kd0.m, Shift.m) >= 0 THEN NatToInt(NatSub(kd0.m, Shift.m))
              ELSE -NatToInt(NatSub(Shift.m, kd0.m)),
              RSub(kd0, Shift))

\* exp(ehi + elo): 1.0 when |ehi| < 2^-54; beyond 2^10 the result is outside
\* binary64 (inf, where Python raises OverflowError, or 0.0)
exp_inline(ehi, elo) ==
  IF ehi.m = <<>> \/ ehi.e < -106 THEN RInt(1)
  ELSE IF ehi.e >= -42 THEN (IF ehi.s = 1 THEN RInf(1) ELSE RZero)
  ELSE PowExpShifted(ehi, elo, RFma(ehi, InvLn2N, Shift))

PowProduct(y, yhi, ylo, ehi) ==
  exp_inline(ehi, RFma(y, ylo, RFma(yhi, y, RNeg(ehi))))

\* y * log(x) as ehi + elo, log(x) being yhi + ylo
PowLogSplit(y, hi, lo, yhi) ==
  PowProduct(y, yhi, RAdd(RSub(hi, yhi), lo), RMul(y, yhi))

PowLogSum(y, hi, lo) == PowLogSplit(y, hi, lo, RAdd(hi, lo))

PowLogPoly(y, r, ar2, t2, lo123, hi) ==
  PowLogSum(y, hi,
            RFma(RMul(r, ar2),
                 RFma(ar2,
                      RFma(RFma(r, pow_log_poly[7], pow_log_poly[6]), ar2,
                           RFma(r, pow_log_poly[5], pow_log_poly[4])),
                      RFma(r, pow_log_poly[3], pow_log_poly[2])),
                 RAdd(lo123, RAdd(RSub(t2, hi), ar2))))

PowLogTails(y, r, t1, lo1, ar, t2, ar2) ==
  PowLogPoly(y, r, ar2, t2,
             RAdd(RAdd(lo1, RAdd(RSub(t1, t2), r)), RFma(ar, r, RNeg(ar2))),
             RAdd(t2, ar2))

PowLogHead(y, r, t1, lo1, ar) ==
  PowLogTails(y, r, t1, lo1, ar, RAdd(r, t1), RMul(r, ar))

\* r = z * invc - 1; k * ln 2 + log(c) in t1 and lo1
PowLogTerms(y, kd, row, r) ==
  PowLogHead(y, r, RFma(kd, Ln2hi, row[2]), RFma(kd, Ln2lo, row[3]),
             RMul(r, pow_log_poly[1]))

\* x = 2^k * z with z in [OFF, 2 * OFF), row the table entry of z
PowLogReduced(y, z, k, row) ==
  PowLogTerms(y, RInt(k), row, RFma(z, row[1], RInt(-1)))

\* d is the fraction of x - OFF taken as bit patterns
PowLogIndex(y, m, ze, k, d) ==
  PowLogReduced(y, RFin(1, m, ze), k,
                pow_log_tab[NatToInt(NatShrBits(d, FracBits - PowLogTableBits)) + 1])

\* pow(x, y) for x = m * 2^e > 0 and finite y: x = 2^k * z, z in [OFF, 2 * OFF)
PowPositive(m, e, y) ==
  IF NatCmp(m, PowOffMant) >= 0
  THEN PowLogIndex(y, m, -MantBits, e + MantBits, NatSub(m, PowOffMant))
  ELSE PowLogIndex(y, m, 1 - MantBits, e + MantBits - 1, NatSub(m, PowOffFrac))

\* a ** y for a float a and an even integer y > 0: pow(|a|, y)
RPowEven(a, y) ==
  IF a.k = "nan" \/ a.k = "undef" THEN a
  ELSE IF a.k = "inf" THEN RInf(1)
  ELSE IF a.m = <<>> THEN RZero
  ELSE PowPositive(a.m, a.e, y)

\* a**4
RPow4(a) == RPowEven(a, RInt(4))

\* a**2
RPow2(a) == RPowEven(a, RInt(2))

RECURSIVE Pow10(_)
Pow10(k) == IF k = 0 THEN 1 ELSE 10 * Pow10(k - 1)

\* the float a decimal literal digits * 10^-places denotes, places <= 9
RDecimal(digits, places) == RDiv(RInt(digits), RInt(Pow10(places)))

\* the float quotient of two integers
RRat(num, den) == RDiv(RInt(num), RInt(den))

(***************************************************************************)
(* The parameters cell.  bar_length, number_of_elements, time_steps, s0,   *)
(* Young_modulus and the applied magnitude u0 (the literal 2e-2 of the     *)
(* boundary cell) are the values a run is configured with; nodes and       *)
(* horizon are computed from them by the same cell.  None of them changes  *)
(* during a run.                                                           *)
(***************************************************************************)
VARIABLES bar_length, number_of_elements, time_steps, s0, Young_modulus, u0,
          nodes, horizon, u_applied, n, status, node_values, bonds, acceleration,
          u_vector_solution, u_vector_at_current_time_step,
          u_vector_at_future_time_step, u_vector_at_previous_time_step

params == <<bar_length, number_of_elements, time_steps, s0, Young_modulus, u0,
            nodes, horizon, u_applied>>

vars == <<bar_length, number_of_elements, time_steps, s0, Young_modulus, u0,
          nodes, horizon, u_applied, n, status, node_values, bonds, acceleration,
          u_vector_solution, u_vector_at_current_time_step,
          u_vector_at_future_time_step, u_vector_at_previous_time_step>>

\* bounds of the generic configurations
MaxLengthUnits == 3

MaxNodes == 7

MaxSteps == 4

\* the bar lengths, critical stretches, moduli and applied magnitudes a
\* generic run is configured with
Lengths == {5 * k : k \in 1 .. MaxLengthUnits}

CriticalStretches == {RDecimal(2, 2), RDecimal(4, 3)}

Moduli == {RZero, RDecimal(1957855, 2)}

Magnitudes == {RZero, RDecimal(2, 2)}

\* rho = 8e-6
rho == RDecimal(8, 6)

nu == RDecimal(3, 1)

K == RDiv(Young_modulus, RMul(RInt(3), RSub(RInt(1), RMul(RInt(2), nu))))

del_T == RDecimal(1, 1)

nx == number_of_elements

vol == RInt(1)

\* a force sum without the body force
body_force_omitted == RZero

\* the body force literal 9.8e-9
body_force == RDiv(RInt(98), RMul(RInt(100000), RInt(100000)))

\* np.pi
np_pi ==
  RDiv(RAdd(RMul(RInt(31415926), RInt(100000000)), RInt(53589793)),
       RMul(RInt(10000000), RInt(100000000)))

delta_x == RRat(bar_length, number_of_elements)

HorizonFactorMilli == 3014

\* the node ids 0..N-1 (ids = np.arange(len(nodes)), in coordinate order)
ids == 0 .. (nx - 1)

(***************************************************************************)
(* np.linspace(start, stop, num): sample i is i * step + start with        *)
(* step = (stop - start) / (num - 1), and stop itself for the last sample. *)
(* With one sample linspace returns the start alone.                       *)
(***************************************************************************)
np_linspace(start, stop, num) ==
  [i \in 0 .. (num - 1) |->
     IF num = 1 THEN start
     ELSE IF i = num - 1 THEN stop
     ELSE RAdd(RMul(RInt(i), RDiv(RSub(stop, start), RInt(num - 1))), start)]

\* start_position = -bar_length/2.0
start_position == RRat(-bar_length, 2)

\* end_position = bar_length/2.0
end_position == RRat(bar_length, 2)

\* a boundary assignment that forgets the far end of the bar
InBoundaryLayerStartOnly(i) == RLe(RAbs(RSub(nodes[i], start_position)), horizon)

\* the condition of the boundary assignment loop
InBoundaryLayer(i) ==
  \/ RLe(RAbs(RSub(nodes[i], start_position)), horizon)
  \/ RLe(RAbs(RSub(nodes[i], end_position)), horizon)

\* int(nodes_coords[p][0]): truncation toward zero
xp_locx(p) == RTrunc(nodes[p])

(***************************************************************************)
(* The boundary conditions cell: three constant pieces of time_steps // 3  *)
(* values each, concatenated.                                              *)
(***************************************************************************)
Constant(v, len) == [i \in 1 .. len |-> v]

\* a boundary history whose second piece is not reversed
BoundaryValuesNoReversal(steps, mag) ==
  Constant(mag, steps \div 3) \o Constant(mag, steps \div 3)
    \o Constant(RZero, steps \div 3)

BoundaryValues(steps, mag) ==
  Constant(mag, steps \div 3) \o Constant(RNeg(mag), steps \div 3)
    \o Constant(RZero, steps \div 3)

(***************************************************************************)
(* The displacement cell.                                                  *)
(***************************************************************************)
ZeroField == [i \in ids |-> RZero]

\* tree.query_ball_point(nodes_coords[node_index], horizon): the nodes whose
\* distance to node x is at most the horizon (all nodes share the second
\* coordinate 1.0)
neighbor_ids(x) == {j \in ids : RLe(RAbs(RSub(nodes[j], nodes[x])), horizon)}

\* the p of "for p in range(len(neighbor_ids))" that pass the self test
EvaluatedNeighbors(x) == {p \in 0 .. (Cardinality(neighbor_ids(x)) - 1) : p # x}

\* ksi = sqrt((xp_locx - xi_locx)^2 + (xp_locy - xi_locy)^2), xp_locy = int(1.0)
\* = xi_locy, with xp_locx the truncated coordinate of p; in binary64 the
\* root of a rounded square is the magnitude of the number squared
Ksi(x, p) == RAbs(RSub(RInt(xp_locx(p)), nodes[x]))

\* c = (18*K)/(np.pi * horizon**4); the loop recomputes the same value in every pass
c == RDiv(RMul(RInt(18), K), RMul(np_pi, RPow4(horizon)))

\* a damage rule with the comparison the wrong way round
DamageFactorInverted(s, crit) == IF RGt(s, crit) THEN 1 ELSE 0

\* if s > s0: mu = 0, else: mu = 1
DamageFactor(s, crit) == IF RGt(s, crit) THEN 0 ELSE 1

\* s = ((np.abs(ksi+eta)) - np.abs(ksi))/np.abs(ksi)
Stretch(ksi, eta) == RDiv(RSub(RAbs(RAdd(ksi, eta)), RAbs(ksi)), RAbs(ksi))

\* (ksi+eta)/np.abs(ksi+eta)
Direction(len) == RDiv(len, RAbs(len))

\* (((ksi+eta)/np.abs(ksi+eta)) * c * s * mu)*vol
BondForce(ksi, eta, s, mu, cv) ==
  RMul(RMul(RMul(RMul(Direction(RAdd(ksi, eta)), cv), s), RInt(mu)), vol)

\* what a pass leaves, from its ksi, eta and s
BondWith(ksi, eta, s, cv) ==
  [ksi |-> ksi, eta |-> eta, s |-> s, mu |-> DamageFactor(s, s0),
   force |-> BondForce(ksi, eta, s, DamageFactor(s, s0), cv)]

BondOf(ksi, eta, cv) == BondWith(ksi, eta, Stretch(ksi, eta), cv)

\* one pass of the neighbor loop body for node x and loop index p
Bond(x, p, nv, cv) == BondOf(Ksi(x, p), RSub(nv[p], nv[x]), cv)

\* sum_term after the neighbor loop of one node, row being its passes:
\* sum_term = sum_term + force + 9.8e-9, added from left to right
RECURSIVE SumFrom(_, _)
SumFrom(row, p) ==
  IF p < 0 THEN RZero
  ELSE IF p \in DOMAIN row
       THEN RAdd(RAdd(SumFrom(row, p - 1), row[p].force), body_force)
  ELSE SumFrom(row, p - 1)

sum_term(row) == SumFrom(row, nx - 1)

\* the value of acceleration at the central difference of node x: set by the
\* node's last pass, otherwise left from the node (or the step) before
RECURSIVE AccelerationAt(_, _)
AccelerationAt(x, rows) ==
  IF DOMAIN rows[x] # {} THEN RDiv(sum_term(rows[x]), rho)
  ELSE IF x = 0 THEN acceleration
  ELSE AccelerationAt(x - 1, rows)

\* del_T**2
del_T_pow_2 == RPow2(del_T)

\* a central difference that drops the previous displacement
CentralDifferenceNoPrevious(acc, cur, prev) ==
  RAdd(RMul(acc, del_T_pow_2), RMul(RInt(2), cur))

\* u_future = acceleration*del_T**2 + 2*u_current - u_previous
CentralDifference(acc, cur, prev) ==
  RSub(RAdd(RMul(acc, del_T_pow_2), RMul(RInt(2), cur)), prev)

\* a recorder that stores the freshly computed field
RecordedValueFuture(cur, fut) == fut

\* u_vector_solution[n, x, y] = u_vector_at_current_time_step[x, y]
RecordedValue(cur, fut) == cur

Init ==
  /\ bar_length \in Lengths
  /\ number_of_elements \in 1 .. MaxNodes
  /\ time_steps \in 1 .. MaxSteps
  /\ s0 \in CriticalStretches
  /\ Young_modulus \in Moduli
  /\ u0 \in Magnitudes
  /\ nodes = np_linspace(RRat(-bar_length, 2), RRat(bar_length, 2), number_of_elements)
  /\ horizon = RMul(delta_x, RRat(HorizonFactorMilli, 1000))
  /\ u_applied = BoundaryValues(time_steps, u0)
  /\ n = 0
  /\ status = "running"
  /\ node_values = ZeroField
  /\ bonds = [x \in ids |-> <<>>]
  /\ acceleration = RUndef
  /\ u_vector_solution = [t \in 0 .. (time_steps - 1) |-> ZeroField]
  /\ u_vector_at_current_time_step = ZeroField
  /\ u_vector_at_future_time_step = ZeroField
  /\ u_vector_at_previous_time_step = ZeroField

\* the shipped parameters cell
ScenarioInit ==
  /\ bar_length = 15
  /\ number_of_elements = 7
  /\ time_steps = 150
  /\ s0 = RDecimal(2, 2)
  /\ Young_modulus = RDecimal(1957855, 2)
  /\ u0 = RDecimal(2, 2)
  /\ nodes = np_linspace(RRat(-bar_length, 2), RRat(bar_length, 2), number_of_elements)
  /\ horizon = RMul(delta_x, RRat(HorizonFactorMilli, 1000))
  /\ u_applied = BoundaryValues(time_steps, u0)
  /\ n = 0
  /\ status = "running"
  /\ node_values = ZeroField
  /\ bonds = [x \in ids |-> <<>>]
  /\ acceleration = RUndef
  /\ u_vector_solution = [t \in 0 .. (time_steps - 1) |-> ZeroField]
  /\ u_vector_at_current_time_step = ZeroField
  /\ u_vector_at_future_time_step = ZeroField
  /\ u_vector_at_previous_time_step = ZeroField

(***************************************************************************)
(* One iteration of "for n in range(0, time_steps)".  u_applied[n] is read *)
(* at the first boundary-layer node, which is node 0; an index past the    *)
(* end of u_applied raises IndexError there, after node_values was made.   *)
(* The central difference of node 0 reads acceleration; if no pass of its  *)
(* neighbor loop got past the self test and no earlier step bound the      *)
(* name, that raises NameError before anything is written.                 *)
(***************************************************************************)
TimeStep ==
  /\ status = "running"
  /\ n < time_steps
  /\ IF n >= Len(u_applied)
     THEN /\ status' = "IndexError"
          /\ node_values' = ZeroField
          /\ UNCHANGED <<n, bonds, acceleration, u_vector_solution,
                         u_vector_at_current_time_step,
                         u_vector_at_future_time_step,
                         u_vector_at_previous_time_step>>
     ELSE /\ node_values' = [i \in ids |-> IF InBoundaryLayer(i) THEN u_applied[n + 1] ELSE RZero]
          /\ IF EvaluatedNeighbors(0) = {} /\ acceleration.k = "undef"
             THEN /\ status' = "NameError"
                  /\ bonds' = [x \in ids |-> <<>>]
                  /\ UNCHANGED <<n, acceleration, u_vector_solution,
                                 u_vector_at_current_time_step,
                                 u_vector_at_future_time_step,
                                 u_vector_at_previous_time_step>>
             ELSE /\ \E cv \in {c} :
                       bonds' = [x \in ids |->
                                   [p \in EvaluatedNeighbors(x) |-> Bond(x, p, node_values', cv)]]
                  /\ u_vector_at_future_time_step' =
                       [x \in ids |->
                          CentralDifference(AccelerationAt(x, bonds'),
                                            u_vector_at_current_time_step[x],
                                            u_vector_at_previous_time_step[x])]
                  /\ acceleration' = AccelerationAt(nx - 1, bonds')
                  /\ u_vector_solution' =
                       [u_vector_solution EXCEPT ![n] =
                          [x \in ids |->
                             RecordedValue(u_vector_at_current_time_step[x],
                                           u_vector_at_future_time_step'[x])]]
                  /\ u_vector_at_previous_time_step' = u_vector_at_current_time_step
                  /\ u_vector_at_current_time_step' = u_vector_at_future_time_step'
                  /\ n' = n + 1
                  /\ status' = "running"
  /\ UNCHANGED params

\* range(0, time_steps) is exhausted: the cell ends
LoopExit ==
  /\ status = "running"
  /\ n = time_steps
  /\ status' = "done"
  /\ UNCHANGED <<params, n, node_values, bonds, acceleration, u_vector_solution,
                 u_vector_at_current_time_step, u_vector_at_future_time_step,
                 u_vector_at_previous_time_step>>

Next == TimeStep \/ LoopExit

Spec == Init /\ [][Next]_vars

ScenarioSpec == ScenarioInit /\ [][Next]_vars

(***************************************************************************)
(* Properties.                                                             *)
(***************************************************************************)
\* a time step ran its force evaluation and the bonds of that step are recorded
StepEvaluated == n > 0

\* the time step whose boundary assignment wrote node_values, if any
AssignmentRan == (status \in {"running", "done"} /\ n > 0) \/ status = "NameError"

AssignedStep == IF status = "NameError" THEN 0 ELSE n - 1

\* The reference geometry, exactly: point i of N > 1 points lies at
\* NodeNum(i)/CoordDen = -L/2 + i * L/(N - 1), a single point at -L/2, and
\* the horizon is 3.014 * L / N.
CoordDen == IF nx = 1 THEN 2 ELSE 2 * (nx - 1)

NodeNum(i) == IF nx = 1 THEN -bar_length ELSE 2 * i * bar_length - bar_length * (nx - 1)

\* d/CoordDen <= horizon
WithinHorizon(d) == d * 1000 * number_of_elements <= HorizonFactorMilli * bar_length * CoordDen

\* the reference distance of i and j is within the horizon
RefDistanceWithinHorizon(i, j) == WithinHorizon(IntAbs(NodeNum(j) - NodeNum(i)))

\* the reference coordinate of i is within the horizon of an end of the bar
NearAnEnd(i) ==
  \/ WithinHorizon(IntAbs(NodeNum(i) + bar_length * (CoordDen \div 2)))
  \/ WithinHorizon(IntAbs(NodeNum(i) - bar_length * (CoordDen \div 2)))

\* C1: at every step the points summed into i's force are exactly the other
\* points within the horizon of i (closed ball, self excluded).
C1_SummedNeighborsAreTheBall ==
  StepEvaluated =>
    \A x \in ids :
      DOMAIN bonds[x] = {j \in ids : j # x /\ RefDistanceWithinHorizon(x, j)}

\* C2: once a bond's stretch exceeded s0 in a step, its damage factor (and
\* its force) is zero in the next step that evaluates it, and so ever after.
C2_BreakageIsIrreversible ==
  [][\A x \in ids :
       \A p \in DOMAIN bonds[x] :
         (RGt(bonds[x][p].s, s0) /\ p \in DOMAIN bonds'[x])
           => (bonds'[x][p].mu = 0 /\ RIsZero(bonds'[x][p].force))]_vars

\* C3: the neighbor sets the force evaluator uses are symmetric.
C3_NeighborSetsSymmetric ==
  StepEvaluated =>
    \A i \in ids :
      \A j \in ids :
        (i # j /\ j \in DOMAIN bonds[i]) => i \in DOMAIN bonds[j]

\* C4: the boundary value of the step is assigned to exactly the points whose
\* reference coordinate is within the horizon of an end of the bar; every
\* other point keeps the zero node_values was created with.
C4_BoundaryLayerAssigned ==
  \A i \in ids :
    /\ ((AssignmentRan /\ NearAnEnd(i)) => node_values[i] = u_applied[AssignedStep + 1])
    /\ (~NearAnEnd(i) => node_values[i] = RZero)

\* C4 witness: a step assigned a nonzero boundary value and left an interior
\* point alone.
C4_Witness ==
  /\ AssignmentRan
  /\ \E i \in ids : NearAnEnd(i) /\ ~RIsZero(node_values[i])
  /\ \E j \in ids : ~NearAnEnd(j) /\ RIsZero(node_values[j])

\* the prescribed value of the shipped scenario at step t
ScenarioValue(t) ==
  IF t < 50 THEN RDecimal(2, 2) ELSE IF t < 100 THEN RNeg(RDecimal(2, 2)) ELSE RZero

\* node_values after a step that prescribes ScenarioValue on the points of layer
ScenarioNodeValues(layer) ==
  AssignmentRan =>
    node_values = [i \in ids |-> IF i \in layer THEN ScenarioValue(AssignedStep) ELSE RZero]

\* C5 as claimed: in the shipped scenario two points at each end (0, 1 and
\* 5, 6) receive +0.02, -0.02, 0 over the three thirds of the 150 steps, and
\* the three points between them receive nothing.
C5_TwoPointsEachEnd == ScenarioNodeValues({0, 1, 5, 6})

\* C5 amended: three points at each end (0, 1, 2 and 4, 5, 6) receive +0.02,
\* -0.02, 0 over the three thirds of the 150 steps; node 3 alone is interior.
C5_ThreePointsEachEnd == ScenarioNodeValues({0, 1, 2, 4, 5, 6})

\* C5 witness: step 99, the last of the negative third, has just run.
C5_Witness == n = 100 /\ node_values[2] = RNeg(RDecimal(2, 2)) /\ RIsZero(node_values[3])

\* C6: for time_steps >= 3 the boundary history has one value per step, so
\* no step reads past its end.
C6_OneValuePerStep ==
  time_steps >= 3 => (Len(u_applied) = time_steps /\ status # "IndexError")

\* no bond the evaluator visits has zero reference length
NoZeroLengthBond ==
  \A x \in ids : \A p \in EvaluatedNeighbors(x) : ~RIsZero(Ksi(x, p))

\* C7: without a zero-length bond the run never aborts, and when it ends every
\* step has run.
C7_OnlyZeroLengthBondFails ==
  NoZeroLengthBond =>
    /\ status \notin {"IndexError", "NameError"}
    /\ (status = "done" => n = time_steps)

\* K = 0 and a boundary value of zero at every step
ZeroInput == RIsZero(Young_modulus) /\ RIsZero(u0)

\* C8 as claimed: with zero stiffness and zero boundary value every recorded
\* and live displacement is exactly 0.
C8_ZeroInputStaysZero ==
  ZeroInput =>
    /\ u_vector_at_current_time_step = ZeroField
    /\ \A t \in DOMAIN u_vector_solution : u_vector_solution[t] = ZeroField

\* (9.8e-9 / rho) * del_T^2, the displacement one body-force term adds per step
BodyForceStep == RDecimal(1225, 8)

\* the relative error allowed for float rounding
RoundingTolerance == RMul(RDecimal(1, 6), RDecimal(1, 6))

\* a equals b up to float rounding; nan only equals nan
CloseTo(a, b) ==
  \/ a = b
  \/ RLe(RAbs(RSub(a, b)), RMul(RAbs(b), RoundingTolerance))

\* the displacement of point i after m steps driven by the body force alone:
\* one body-force term per evaluated neighbor, integrated twice; nan from the
\* first step on if a bond of i has zero length
BodyForceDisplacement(i, m) ==
  IF m > 0 /\ \E p \in EvaluatedNeighbors(i) : RIsZero(Ksi(i, p))
  THEN RNaN
  ELSE RMul(RInt(Cardinality(EvaluatedNeighbors(i)) * ((m * (m + 1)) \div 2)), BodyForceStep)

\* C8 amended: with zero stiffness and zero boundary value the bond forces
\* are zero and the displacement is that of the body force alone: 0 in the
\* first snapshot and k_i * (9.8e-9/rho) * del_T^2 * m(m+1)/2 after m steps,
\* up to float rounding.
C8_ZeroInputBodyForceOnly ==
  ZeroInput =>
    \A i \in ids :
      /\ CloseTo(u_vector_at_current_time_step[i], BodyForceDisplacement(i, n))
      /\ \A t \in DOMAIN u_vector_solution :
           IF t < n THEN CloseTo(u_vector_solution[t][i], BodyForceDisplacement(i, t))
           ELSE u_vector_solution[t][i] = RZero
      /\ \A p \in DOMAIN bonds[i] :
           ~RIsZero(bonds[i][p].ksi) => RIsZero(bonds[i][p].force)

\* C8 witness: a zero-input run finished three steps with a nonzero
\* displacement.
C8_Witness ==
  /\ ZeroInput
  /\ status = "done"
  /\ n = 3
  /\ \E i \in ids : RGt(u_vector_solution[2][i], RZero)

\* C9: in the shipped scenario the recorded displacement of the interior
\* point stays below 10 * L = 150 in magnitude.
C9_InteriorHistoryBounded ==
  \A t \in DOMAIN u_vector_solution :
    \A i \in ids :
      ~NearAnEnd(i) => RGt(RInt(10 * bar_length), RAbs(u_vector_solution[t][i]))

\* C10: step n writes the displacement the step started with into entry n of
\* the history and nothing else (entry 0 is zero, entry n + 1 is the future
\* field of step n); entries of steps that have not run are zero.
C10_HistoryOneStepBehind ==
  /\ [](\A t \in DOMAIN u_vector_solution : t >= n => u_vector_solution[t] = ZeroField)
  /\ [][/\ n' = n + 1 =>
             /\ u_vector_solution'[n] = u_vector_at_current_time_step
             /\ (n = 0 => u_vector_solution'[n] = ZeroField)
             /\ (n > 0 => u_vector_solution'[n] = u_vector_at_future_time_step)
             /\ \A t \in DOMAIN u_vector_solution :
                  t # n => u_vector_solution'[t] = u_vector_solution[t]
         /\ (n' = n => u_vector_solution' = u_vector_solution)]_vars

\* C10 witness: a run ended with a nonzero last snapshot.
C10_Witness ==
  /\ status = "done"
  /\ time_steps >= 3
  /\ u_vector_solution[time_steps - 1] # ZeroField

\* the displacement point k has during the step that ended last, as the
\* contract reads it: the step's boundary value in the boundary layer, the
\* current displacement the step started with elsewhere
ContractDisplacement(k) ==
  IF NearAnEnd(k) THEN u_applied[n] ELSE u_vector_at_previous_time_step[k]

\* C11: for every evaluated bond (i, j) the relative displacement eta is
\* u_j - u_i, with u_k the step's boundary value at a boundary-layer point and
\* the evolved current displacement of k elsewhere.
C11_EtaFromDisplacementField ==
  (StepEvaluated /\ status \in {"running", "done"}) =>
    \A x \in ids :
      \A p \in DOMAIN bonds[x] :
        bonds[x][p].eta = RSub(ContractDisplacement(p), ContractDisplacement(x))

\* C12: the boundary value overwrites the current displacement at the
\* boundary-layer points before the forces are evaluated, so the snapshot of
\* every completed step shows the step's prescribed value at those points.
C12_SnapshotShowsBoundaryValue ==
  \A t \in DOMAIN u_vector_solution :
    (t < n /\ status \in {"running", "done"}) =>
      \A i \in ids :
        /\ NearAnEnd(i) => u_vector_solution[t][i] = u_applied[t + 1]
        /\ (NearAnEnd(i) /\ t = n - 1) =>
             u_vector_at_previous_time_step[i] = u_applied[t + 1]

\* a*dt^2 + 2*c - p, the displacement the contract gives a point with
\* acceleration a, current displacement c and previous displacement p
ExpectedUpdate(a, cur, prev) ==
  RSub(RAdd(RMul(a, RMul(del_T, del_T)), RMul(RInt(2), cur)), prev)

\* C13: a completed step leaves current[i] = a[i]*dt^2 + 2*c[i] - p[i] and
\* previous[i] = c[i] for every point i, where c and p are the current and
\* previous fields the step started with and a[i] comes from i's own neighbor
\* sum of this step; no point's update reads a value another point's update
\* wrote in the same step.
C13_CentralDifferenceAndRotation ==
  [][/\ (n' = n + 1) =>
          \A i \in ids :
            /\ DOMAIN bonds'[i] # {}
            /\ u_vector_at_current_time_step'[i] =
                 ExpectedUpdate(RDiv(sum_term(bonds'[i]), rho),
                                u_vector_at_current_time_step[i],
                                u_vector_at_previous_time_step[i])
            /\ u_vector_at_previous_time_step'[i] = u_vector_at_current_time_step[i]
     /\ (n' = n) =>
          /\ u_vector_at_current_time_step' = u_vector_at_current_time_step
          /\ u_vector_at_previous_time_step' = u_vector_at_previous_time_step]_vars

\* C13 witness: a third step has run on a point whose previous and current
\* displacements were both nonzero and different.
C13_Witness ==
  /\ n >= 3
  /\ \E i \in ids :
       /\ u_vector_at_previous_time_step[i].k = "fin"
       /\ ~RIsZero(u_vector_solution[n - 2][i])
       /\ u_vector_solution[n - 2][i] # u_vector_at_previous_time_step[i]

\* C14: for every evaluated bond (i, j) the reference distance ksi used in
\* the stretch is |x_j - x_i| on the exact reference coordinates, hence
\* strictly positive.
C14_KsiIsExactDistance ==
  \A x \in ids :
    \A p \in DOMAIN bonds[x] :
      /\ bonds[x][p].ksi = RAbs(RSub(nodes[p], nodes[x]))
      /\ RGt(bonds[x][p].ksi, RZero)

\* the force of a recorded bond with the damage factor left out, cv being
\* the bond constant c
UndamagedForce(b, cv) ==
  LET len == RAdd(b.ksi, b.eta)
      dir == RDiv(len, RAbs(len))
  IN  RMul(RMul(RMul(dir, cv), b.s), vol)

\* the displacement a step gives point i when its bonds are summed without
\* the damage factor
UndamagedUpdate(i, row, cur, prev, cv) ==
  LET a == RDiv(sum_term([p \in DOMAIN row |-> [force |-> UndamagedForce(row[p], cv)]]), rho)
  IN  RSub(RAdd(RMul(a, del_T_pow_2), RMul(RInt(2), cur)), prev)

\* C15: in the shipped configuration the damage rule never fires: every
\* evaluated bond has s <= s0 and mu = 1 at every step, and every step
\* leaves the displacement the same run without the damage rule would leave,
\* so the recorded histories are identical.
C15_DamageNeverFires ==
  /\ [](\A cv \in {c} :
          \A x \in ids :
            \A p \in DOMAIN bonds[x] :
              /\ RLe(bonds[x][p].s, s0)
              /\ bonds[x][p].mu = 1
              /\ bonds[x][p].force = UndamagedForce(bonds[x][p], cv))
  /\ [][(n' = n + 1) =>
          \A cv \in {c} :
            \A i \in ids :
              u_vector_at_current_time_step'[i] =
                UndamagedUpdate(i, bonds'[i], u_vector_at_current_time_step[i],
                                u_vector_at_previous_time_step[i], cv)]_vars

\* C15 witness: the last step of the positive third has run and evaluated an
\* intact bond with a positive stretch and a nonzero force.
C15_Witness ==
  /\ n = 50
  /\ \E x \in ids :
       \E p \in DOMAIN bonds[x] :
         /\ RGt(bonds[x][p].s, RZero)
         /\ bonds[x][p].mu = 1
         /\ ~RIsZero(bonds[x][p].force)
====
